---- MODULE Spec2Model ----
(***************************************************************************)
(* A model of the HCLI two-panel editor: the tree renderer and the line    *)
(* map index of TwoPanelEditor.tsx, the hover highlighting built on it,    *)
(* and the store / submit-button machinery around applying human edits.    *)
(***************************************************************************)
EXTENDS Integers, Sequences, FiniteSets, Bags, TLC

(***************************************************************************)
(* Bounds of the model.                                                    *)
(***************************************************************************)
\* largest number of nodes of a tree handed to the renderer
MaxNodes == 3
\* number of lines of the source file the backend serves
MaxPy == 2
\* largest number of nodes of a tree the backend serves
MaxServedNodes == 2
\* largest number of store operations and timers outstanding together
MaxOps == 2
\* largest number of pending diffs
MaxDiffs == 1

VARIABLES
    \* ---- the store (create<AppStore>) ---------------------------------
    selectedFile,         \* repository.selectedFile, "" when null
    pyContent,            \* editor.pyContent: the source text
    pyhContent,           \* editor.pyhContent: the human text
    editor_lineMappings,  \* editor.lineMappings: mappings sent with the raw text
    pyhData,              \* editor.pyhData.phy_chunks.main: the tree, <<>> when absent
    hasUnsavedChanges,    \* editor.hasUnsavedChanges
    diffs,                \* editor.diffs
    isLoading,            \* isLoading
    error,                \* error, "" when null
    ops,                  \* the asynchronous store operations and requests in flight
    \* ---- TwoPanelEditor: the values of its last render pass ------------
    lines,          \* actualPhyLines returned by generatePhyContentWithMappings
    lineMappings,   \* generatedMappings returned by generatePhyContentWithMappings
    pyhToPyRanges,  \* Map<number,[number,number]>: human line -> source range
    pyToPyhLines,   \* Map<number,number>: source line -> human line
    renderFault,    \* the render pass threw (uncaught TypeError)
    \* ---- TwoPanelEditor: hover state -----------------------------------
    hoveredLine,    \* useState<number | null>, 0 when null
    pointer,        \* the line element the mouse pointer is over, <<>> when none
    \* ---- TwoPanelEditor: the header of the human panel -----------------
    unsavedIndicator,  \* useState(false) hasUnsavedChanges of the component
    \* ---- EditorPanel (the Monaco editors) ------------------------------
    monaco,         \* its hoveredLine, the decorations of its two editors, and
                    \* the lineMappings its mouse listeners closed over at mount
    \* ---- SubmitButton --------------------------------------------------
    variant,        \* which SubmitButton the page mounts
    isSubmitting,   \* useState(false)
    submitStatus,   \* 'idle' | 'success' | 'error' | 'warning'
    submitMessage,  \* useState('')
    timers,         \* the setTimeout callbacks not yet run
    \* ---- the backend ---------------------------------------------------
    server          \* what /api/file and /api/pyh-output answer for a file

storeVars == <<selectedFile, pyContent, pyhContent, editor_lineMappings, pyhData,
               hasUnsavedChanges, diffs, isLoading, error>>

renderVars == <<lines, lineMappings, pyhToPyRanges, pyToPyhLines, renderFault>>

\* the local state of the editor components
hoverVars == <<hoveredLine, pointer, monaco, unsavedIndicator>>

submitVars == <<variant, isSubmitting, submitStatus, submitMessage, timers>>

vars == <<storeVars, ops, renderVars, hoverVars, submitVars, server>>

(***************************************************************************)
(* JavaScript values.  A missing / null / empty value is the empty tuple,  *)
(* which is falsy; a present text or range is a non-empty tuple (truthy).  *)
(***************************************************************************)
Absent == <<>>

\* the value of a property that an object does not have
Undefined == <<"undefined">>

Truthy(v) == v # Absent

\* an empty Map
EmptyMap == [x \in {} |-> Absent]

\* Map.prototype.set(k, v): insert or overwrite
MapSet(m, k, v) == [x \in (DOMAIN m) \cup {k} |-> IF x = k THEN v ELSE m[x]]

\* Map.prototype.get(k): the value, undefined (Absent / 0) when k is no key
MapGetRange(m, k) == IF k \in DOMAIN m THEN m[k] ELSE Absent

MapGetLine(m, k) == IF k \in DOMAIN m THEN m[k] ELSE 0

(***************************************************************************)
(* Trees.  A tree is an arena: node i of 1..n, node 1 the root; a node is  *)
(* {id, signature, description, line_range, children}.  The signature of   *)
(* node i is the text <<"sig", i>>, its description <<"desc", i>>, so that *)
(* a rendered line tells which node and which field it was emitted for.    *)
(***************************************************************************)
\* the line_range values a node may carry: one line, two lines, a sub-range
LineRanges == {<<1, 1>>, <<1, 2>>, <<2, 2>>}

RECURSIVE SortedSeq(_)
SortedSeq(S) ==
    IF S = {} THEN <<>>
    ELSE LET m == CHOOSE x \in S : \A y \in S : x <= y
         IN <<m>> \o SortedSeq(S \ {m})

\* parent maps of the ordered trees with n nodes (a node's parent precedes it)
ParentMaps(n) == {p \in [2..n -> 1..n] : \A i \in 2..n : p[i] < i}

NodeContents == [hasSig : BOOLEAN, hasDesc : BOOLEAN, line_range : LineRanges \cup {Absent}]

MkTree(n, p, c) ==
    [i \in 1..n |->
        [id          |-> i,
         signature   |-> IF c[i].hasSig THEN <<"sig", i>> ELSE Absent,
         description |-> IF c[i].hasDesc THEN <<"desc", i>> ELSE Absent,
         line_range  |-> c[i].line_range,
         children    |-> SortedSeq({j \in 2..n : p[j] = i})]]

(***************************************************************************)
(* generatePhyContentWithMappings / renderNode.  acc is the pair of the    *)
(* closure's arrays (lines, lineMappings); a line is {pad, text} with pad  *)
(* the number of "    " units of "    ".repeat(indent).                    *)
(***************************************************************************)
EmptyRender == [lines |-> <<>>, lineMappings |-> <<>>, fault |-> FALSE]

\* PushLine with the line number read after the push less one (0-based)
PushLine_zeroBased(acc, pad, text, lineRange, nodeId) ==
    [lines        |-> Append(acc.lines, [pad |-> pad, text |-> text]),
     lineMappings |-> IF lineRange # <<>>
                      THEN Append(acc.lineMappings,
                                  [pyhLine |-> Len(acc.lines),
                                   pyLineRange |-> lineRange,
                                   nodeId |-> nodeId])
                      ELSE acc.lineMappings,
     fault        |-> acc.fault]

\* lines.push(pad + text), and lineMappings.push({pyhLine: lines.length + 1
\* (taken before the push), pyLineRange, nodeId}) when the node has a range
PushLine(acc, pad, text, lineRange, nodeId) ==
    LET lineNumber == Len(acc.lines) + 1
    IN [lines        |-> Append(acc.lines, [pad |-> pad, text |-> text]),
        lineMappings |-> IF Truthy(lineRange)
                         THEN Append(acc.lineMappings,
                                     [pyhLine |-> lineNumber,
                                      pyLineRange |-> lineRange,
                                      nodeId |-> nodeId])
                         ELSE acc.lineMappings,
        fault        |-> acc.fault]

\* OwnLines with the description at the signature's own indent
OwnLines_flatDescription(acc, node, indent) ==
    IF Truthy(node.signature)
    THEN LET a1 == PushLine(acc, indent, node.signature, node.line_range, node.id)
         IN IF Truthy(node.description)
            THEN PushLine(a1, indent, node.description, node.line_range, node.id)
            ELSE a1
    ELSE IF Truthy(node.description)
         THEN PushLine(acc, indent, node.description, node.line_range, node.id)
         ELSE acc

\* the node's own lines: signature, then description one unit deeper; a
\* description without signature at the node's own indent
OwnLines(acc, node, indent) ==
    IF Truthy(node.signature)
    THEN LET a1 == PushLine(acc, indent, node.signature, node.line_range, node.id)
         IN IF Truthy(node.description)
            THEN PushLine(a1, indent + 1, node.description, node.line_range, node.id)
            ELSE a1
    ELSE IF Truthy(node.description)
         THEN PushLine(acc, indent, node.description, node.line_range, node.id)
         ELSE acc

\* the children visited last to first
ChildOrder_reversed(children) ==
    [k \in 1..Len(children) |-> children[Len(children) + 1 - k]]

\* the order in which `for (const child of node.children || [])` visits
ChildOrder(children) == children

\* a child reference is a node id; 0 is a null entry of a children array
NullChild == 0

\* a children value that `for ... of` cannot iterate (a number, an object)
NotIterable == <<-1>>

\* reading a property of null, or iterating a non-iterable, throws a
\* TypeError: the arrays keep what was pushed and the traversal stops
Throw(acc) == [acc EXCEPT !.fault = TRUE]

RECURSIVE renderNode(_, _, _, _), renderChildren(_, _, _, _, _)
renderNode(t, i, indent, acc) ==
    IF acc.fault THEN acc
    ELSE IF i = NullChild THEN Throw(acc)
    ELSE IF t[i].children = NotIterable THEN Throw(OwnLines(acc, t[i], indent))
    ELSE renderChildren(t, ChildOrder(t[i].children), 1, indent + 1,
                        OwnLines(acc, t[i], indent))

renderChildren(t, children, k, indent, acc) ==
    IF k > Len(children) THEN acc
    ELSE renderChildren(t, children, k + 1, indent, renderNode(t, children[k], indent, acc))

\* the human text: its identity, its number of lines, and the tree JSON.parse
\* finds in it (<<>> when the text is not such JSON)
EmptyText == [text |-> "", nlines |-> 1, json |-> Absent]

\* generatePhyContentWithMappings: the tree of the store, else the tree
\* parsed from pyhContent, else nothing
generatePhyContentWithMappings(t, content) ==
    IF Truthy(t) THEN renderNode(t, 1, 0, EmptyRender)
    ELSE IF Truthy(content.json)
         THEN \* inside try { ... } catch (e) { console.log(...) }
              [renderNode(content.json, 1, 0, EmptyRender) EXCEPT !.fault = FALSE]
    ELSE EmptyRender

(***************************************************************************)
(* The index: finalMappings.forEach(...) filling the two Maps.             *)
(***************************************************************************)
EmptyIndex == [pyhToPyRanges |-> EmptyMap, pyToPyhLines |-> EmptyMap]

\* the loop with `line < end`: the last line of the range is left out
SetRange_exclusiveEnd(m, start, end, pyhLine) ==
    [x \in (DOMAIN m) \cup (start..(end - 1)) |->
        IF x \in start..(end - 1) THEN pyhLine ELSE m[x]]

\* a reverse map that keeps the first human line written for a source line
SetRange_firstWins(m, start, end, pyhLine) ==
    [x \in (DOMAIN m) \cup (start..end) |-> IF x \in DOMAIN m THEN m[x] ELSE pyhLine]

\* for (let line = start; line <= end; line++) pyToPyhLines.set(line, pyhLine)
SetRange(m, start, end, pyhLine) ==
    [x \in (DOMAIN m) \cup (start..end) |-> IF x \in start..end THEN pyhLine ELSE m[x]]

\* IndexOne with only the first line of the range in the forward map
IndexOne_forwardStartOnly(idx, mapping) ==
    IF Truthy(mapping.pyLineRange)
    THEN [pyhToPyRanges |-> MapSet(idx.pyhToPyRanges, mapping.pyhLine,
                                   <<mapping.pyLineRange[1], mapping.pyLineRange[1]>>),
          pyToPyhLines  |-> SetRange(idx.pyToPyhLines, mapping.pyLineRange[1],
                                     mapping.pyLineRange[2], mapping.pyhLine)]
    ELSE idx

\* pyhToPyRanges.set(pyhLine, pyLineRange) and the loop over the range
IndexOne(idx, mapping) ==
    IF Truthy(mapping.pyLineRange)
    THEN [pyhToPyRanges |-> MapSet(idx.pyhToPyRanges, mapping.pyhLine, mapping.pyLineRange),
          pyToPyhLines  |-> SetRange(idx.pyToPyhLines, mapping.pyLineRange[1],
                                     mapping.pyLineRange[2], mapping.pyhLine)]
    ELSE idx

RECURSIVE forEachMapping(_, _, _)
forEachMapping(mappings, k, idx) ==
    IF k > Len(mappings) THEN idx
    ELSE forEachMapping(mappings, k + 1, IndexOne(idx, mappings[k]))

BuildIndex(mappings) == forEachMapping(mappings, 1, EmptyIndex)

\* the two lookups of the index
sourceRangeFor(h) == MapGetRange(pyhToPyRanges, h)

humanLineFor(s) == MapGetLine(pyToPyhLines, s)


(***************************************************************************)
(* One render pass of TwoPanelEditor over the store's current values.      *)
(***************************************************************************)
\* finalMappings: the generated mappings, else the store's raw mappings
finalMappings(generated, raw) == IF Len(generated) > 0 THEN generated ELSE raw

\* an exception leaves the component: nothing is shown or indexed
FaultedRender ==
    [lines |-> <<>>, lineMappings |-> <<>>,
     pyhToPyRanges |-> EmptyMap, pyToPyhLines |-> EmptyMap, fault |-> TRUE]

RenderOutputs(t, content, raw) ==
    LET r   == generatePhyContentWithMappings(t, content)
        idx == BuildIndex(finalMappings(r.lineMappings, raw))
    IN IF r.fault THEN FaultedRender
       ELSE [lines |-> r.lines, lineMappings |-> r.lineMappings,
             pyhToPyRanges |-> idx.pyhToPyRanges, pyToPyhLines |-> idx.pyToPyhLines,
             fault |-> FALSE]

(***************************************************************************)
(* Initial values.                                                         *)
(***************************************************************************)
\* initialRepositoryState, initialEditorState, isLoading, error
InitStore ==
    /\ selectedFile = ""
    /\ pyContent = Absent
    /\ pyhContent = EmptyText
    /\ editor_lineMappings = <<>>
    /\ pyhData = Absent
    /\ hasUnsavedChanges = FALSE
    /\ diffs = <<>>
    /\ isLoading = FALSE
    /\ error = ""
    /\ ops = EmptyBag

\* the first render pass, over the initial store
InitRenderVars ==
    /\ lines = <<>>
    /\ lineMappings = <<>>
    /\ pyhToPyRanges = EmptyMap
    /\ pyToPyhLines = EmptyMap
    /\ renderFault = FALSE

\* EditorPanel before its editors have mounted
MonacoInit ==
    [mounted |-> FALSE, lineMappings |-> <<>>, hoveredLine |-> 0,
     pyDecorations |-> {}, pyhDecorations |-> {}]

InitHover ==
    /\ hoveredLine = 0
    /\ pointer = <<>>
    /\ monaco = MonacoInit
    /\ unsavedIndicator = FALSE

InitSubmit ==
    /\ isSubmitting = FALSE
    /\ submitStatus = "idle"
    /\ submitMessage = ""
    /\ timers = EmptyBag

(***************************************************************************)
(* The component re-renders whenever the store changes: the render values  *)
(* of the next state are those of a render pass over the next store.       *)
(***************************************************************************)
\* one render pass of the component over the new store values; a page
\* whose render threw earlier is gone and renders nothing any more
RenderPass(crashed) ==
    \E out \in {IF crashed \/ pyContent' = Undefined
                THEN \* pyContent.split('\n') of undefined throws a TypeError
                     FaultedRender
                ELSE RenderOutputs(pyhData', pyhContent', editor_lineMappings')} :
       /\ lines' = out.lines
       /\ lineMappings' = out.lineMappings
       /\ pyhToPyRanges' = out.pyhToPyRanges
       /\ pyToPyhLines' = out.pyToPyhLines
       /\ renderFault' = out.fault

Rerender == RenderPass(renderFault)

(***************************************************************************)
(* The backend.  /api/file answers {content}; /api/pyh-output answers      *)
(* {content, line_mappings, phy_data} or a non-ok response (<<>>).         *)
(***************************************************************************)
Files == {"a.py"}

\* the source text: a sequence of lines
PyText == [k \in 1..MaxPy |-> <<"py", k>>]

ServedText == [text |-> "served", nlines |-> 1, json |-> Absent]

EditedText == [text |-> "edited", nlines |-> 1, json |-> Absent]

\* the nodes of a served tree carry a signature
ServedContents == [hasSig : {TRUE}, hasDesc : BOOLEAN, line_range : LineRanges \cup {Absent}]

ServedTrees ==
    UNION {UNION {{MkTree(n, p, c) : c \in [1..n -> ServedContents]} : p \in ParentMaps(n)} :
           n \in 1..MaxServedNodes}

PyhOutput(tree) == [content |-> ServedText, line_mappings |-> <<>>, phy_data |-> tree]

\* a file without tree data, and the same file with every served tree
PlainServer == [content |-> PyText, pyh |-> PyhOutput(Absent)]

Servers ==
    {[content |-> PyText, pyh |-> Absent], PlainServer}
        \cup {[content |-> PyText, pyh |-> PyhOutput(t)] : t \in ServedTrees}

(***************************************************************************)
(* What TwoPanelEditor shows.                                              *)
(***************************************************************************)
\* pyContent.split('\n').length
PyLineCount == IF pyContent = Absent THEN 1 ELSE Len(pyContent)

\* finalPhyLines.length: the rendered lines, else pyhContent.split('\n')
FinalPhyLineCount == IF Len(lines) > 0 THEN Len(lines) ELSE pyhContent.nlines

\* a render that threw has removed the whole page (no error boundary)
AppMounted == ~renderFault

\* neither the spinner (isLoading) nor the placeholder (no content) is shown
LinesMounted == ~renderFault /\ ~isLoading /\ (pyhContent.text # "" \/ pyContent # Absent)

\* isInHighlightedRange of the right panel, as a set of source lines
HighlightedPy ==
    IF LinesMounted
    THEN {n \in 1..PyLineCount :
            IF hoveredLine # 0 /\ hoveredLine \in DOMAIN pyhToPyRanges
            THEN LET range == MapGetRange(pyhToPyRanges, hoveredLine)
                 IN Truthy(range) /\ n >= range[1] /\ n <= range[2]
            ELSE FALSE}
    ELSE {}

\* isHighlighted of the left panel, as a set of human lines
HighlightedPyh ==
    IF LinesMounted THEN {n \in 1..FinalPhyLineCount : hoveredLine = n} ELSE {}

(***************************************************************************)
(* Store operations.  An operation in flight is a record in the bag ops:   *)
(* kind, the file it was called with, cont (what awaits it) and, for a     *)
(* reload, after (the outcome of the apply that scheduled it).             *)
(***************************************************************************)
Op(kind, file, cont, after) == [kind |-> kind, file |-> file, cont |-> cont, after |-> after]

Outstanding == BagCardinality(ops) + BagCardinality(timers)

\* the pointer is over a line element of TwoPanelEditor
PointerOnLine == pointer # <<>> /\ pointer[1] \in {"pyh", "py"}

\* the spinner replaces the panels: the line under the pointer is removed
\* from the page without a mouseleave, and hoveredLine keeps its value
Unmount ==
    /\ pointer' = IF PointerOnLine THEN <<>> ELSE pointer
    /\ hoveredLine' = hoveredLine
    /\ monaco' = monaco
    /\ unsavedIndicator' = unsavedIndicator

\* selectFile, up to its first await: set({isLoading: true, error: null})
selectFileBegin(file, cont, after) ==
    /\ isLoading' = TRUE
    /\ error' = ""
    /\ ops' = ops (+) SetToBag({Op("selectFile", file, cont, after)})
    /\ UNCHANGED <<selectedFile, pyContent, pyhContent, editor_lineMappings, pyhData,
                   hasUnsavedChanges, diffs>>
    /\ UNCHANGED renderVars
    /\ Unmount

\* handleFileSelect: a file is chosen in the explorer
SelectFile ==
    /\ AppMounted
    /\ Outstanding < MaxOps
    /\ \E file \in Files : selectFileBegin(file, "none", "none")
    /\ UNCHANGED <<submitVars, server>>

\* what awaits selectFile in the reload timer of SubmitButton
AfterSelectFile(o) ==
    IF o.cont = "reload"
    THEN /\ submitStatus' = "idle"
         /\ submitMessage' = ""
         /\ UNCHANGED <<variant, isSubmitting, timers>>
    ELSE UNCHANGED submitVars

\* selectFile, both fetches answered: the set((state) => ...) of the try block
selectFileOk(o) ==
    /\ o.kind = "selectFile"
    /\ ops' = ops (-) SetToBag({o})
    /\ selectedFile' = o.file
    /\ pyContent' = server.content
    /\ pyhContent' = IF Truthy(server.pyh) THEN server.pyh.content ELSE EmptyText
    /\ editor_lineMappings' = IF Truthy(server.pyh) THEN server.pyh.line_mappings ELSE <<>>
    /\ pyhData' = IF Truthy(server.pyh) THEN server.pyh.phy_data ELSE Absent
    /\ hasUnsavedChanges' = FALSE
    /\ isLoading' = FALSE
    /\ UNCHANGED <<diffs, error>>
    /\ Rerender
    /\ UNCHANGED <<hoverVars, server>>
    /\ AfterSelectFile(o)

SelectFileOk == \E o \in BagToSet(ops) : selectFileOk(o)

\* selectFile, a fetch rejected: the set of the catch block
SelectFileFail ==
    \E o \in BagToSet(ops) :
        /\ o.kind = "selectFile"
        /\ ops' = ops (-) SetToBag({o})
        /\ error' = "Failed to load file"
        /\ isLoading' = FALSE
        /\ UNCHANGED <<selectedFile, pyContent, pyhContent, editor_lineMappings, pyhData,
                       hasUnsavedChanges, diffs>>
        /\ UNCHANGED <<renderVars, hoverVars, server>>
        /\ AfterSelectFile(o)

\* selectFile, the source request answered non-ok with a JSON error body:
\* pyResponse.ok is not tested, pyData.content is undefined, and the set of
\* the try block runs
SelectFileNotOk ==
    \E o \in BagToSet(ops) :
        /\ o.kind = "selectFile"
        /\ ops' = ops (-) SetToBag({o})
        /\ selectedFile' = o.file
        /\ pyContent' = Undefined
        /\ pyhContent' = IF Truthy(server.pyh) THEN server.pyh.content ELSE EmptyText
        /\ editor_lineMappings' = IF Truthy(server.pyh) THEN server.pyh.line_mappings ELSE <<>>
        /\ pyhData' = IF Truthy(server.pyh) THEN server.pyh.phy_data ELSE Absent
        /\ hasUnsavedChanges' = FALSE
        /\ isLoading' = FALSE
        /\ UNCHANGED <<diffs, error>>
        /\ Rerender
        /\ UNCHANGED <<hoverVars, server>>
        /\ AfterSelectFile(o)

(***************************************************************************)
(* The other asynchronous operations of the store.  Each begins with       *)
(* set({isLoading: true, error: null}) and ends in the set of its try      *)
(* block or in the set of its catch block.  The repository fields they     *)
(* write on success (files, repoUrl, currentDirectory) are outside the     *)
(* state of this module.                                                   *)
(***************************************************************************)
\* set({isLoading: true, error: null}) and the request
opBegin(kind, file, cont) ==
    /\ isLoading' = TRUE
    /\ error' = ""
    /\ ops' = ops (+) SetToBag({Op(kind, file, cont, "none")})
    /\ UNCHANGED <<selectedFile, pyContent, pyhContent, editor_lineMappings, pyhData,
                   hasUnsavedChanges, diffs>>
    /\ UNCHANGED renderVars
    /\ Unmount

\* what awaits the operation: handleSave goes on to setHasUnsavedChanges(false)
\* after saveUserPhy, which resolves whether or not the request succeeded
AfterOp(o) ==
    IF o.cont = "handleSave"
    THEN /\ unsavedIndicator' = FALSE
         /\ UNCHANGED <<hoveredLine, pointer, monaco>>
    ELSE UNCHANGED hoverVars

\* set({isLoading: false}) of a try block
opOk(o) ==
    /\ ops' = ops (-) SetToBag({o})
    /\ isLoading' = FALSE
    /\ UNCHANGED <<selectedFile, pyContent, pyhContent, editor_lineMappings, pyhData,
                   hasUnsavedChanges, diffs, error>>
    /\ UNCHANGED <<renderVars, submitVars, server>>
    /\ AfterOp(o)

\* the try block ends without calling the next operation and without a set
opChain_dropsNext(o, kind) ==
    /\ ops' = ops (-) SetToBag({o})
    /\ UNCHANGED <<selectedFile, pyContent, pyhContent, editor_lineMappings, pyhData,
                   hasUnsavedChanges, diffs, isLoading, error>>
    /\ UNCHANGED <<renderVars, hoverVars, submitVars, server>>

\* the try block ends by awaiting another operation of the store, which
\* begins with set({isLoading: true, error: null})
opChain(o, kind) ==
    /\ ops' = (ops (-) SetToBag({o})) (+) SetToBag({Op(kind, o.file, o.kind, "none")})
    /\ isLoading' = TRUE
    /\ error' = ""
    /\ UNCHANGED <<selectedFile, pyContent, pyhContent, editor_lineMappings, pyhData,
                   hasUnsavedChanges, diffs>>
    /\ UNCHANGED renderVars
    /\ Unmount
    /\ UNCHANGED <<submitVars, server>>

\* set({error: ..., isLoading: false}) of a catch block
opFail(o, message) ==
    /\ ops' = ops (-) SetToBag({o})
    /\ error' = message
    /\ isLoading' = FALSE
    /\ UNCHANGED <<selectedFile, pyContent, pyhContent, editor_lineMappings, pyhData,
                   hasUnsavedChanges, diffs>>
    /\ UNCHANGED <<renderVars, submitVars, server>>
    /\ AfterOp(o)

\* the SAVE button (disabled={!hasUnsavedChanges}) and handleSave:
\* saveUserPhy(repository.selectedFile, pyhContent)
SaveUserPhy ==
    /\ LinesMounted
    /\ unsavedIndicator
    /\ selectedFile # ""
    /\ Outstanding < MaxOps
    /\ opBegin("saveUserPhy", selectedFile, "handleSave")
    /\ UNCHANGED <<submitVars, server>>

SaveUserPhyOk == \E o \in BagToSet(ops) : o.kind = "saveUserPhy" /\ opOk(o)

SaveUserPhyFail ==
    \E o \in BagToSet(ops) :
        o.kind = "saveUserPhy" /\ opFail(o, "Failed to save user PHY content")

\* handleGitHubConfirm: cloneGitHubRepo(repoUrl)
CloneGitHubRepo ==
    /\ AppMounted
    /\ Outstanding < MaxOps
    /\ opBegin("cloneGitHubRepo", "", "none")
    /\ UNCHANGED <<submitVars, server>>

\* the clone answered ok: set({..., isLoading: false}), then
\* await get().crawlRepository(data.repo_path)
CloneGitHubRepoOk ==
    \E o \in BagToSet(ops) : o.kind = "cloneGitHubRepo" /\ opChain(o, "crawlRepository")

CloneGitHubRepoFail ==
    \E o \in BagToSet(ops) :
        o.kind = "cloneGitHubRepo" /\ opFail(o, "Failed to clone repository")

\* handleCrawlDirectory: crawlRepository(repository.currentDirectory)
CrawlRepository ==
    /\ AppMounted
    /\ Outstanding < MaxOps
    /\ opBegin("crawlRepository", "", "none")
    /\ UNCHANGED <<submitVars, server>>

\* the crawl answered ok: await get().loadFiles(targetPath)
CrawlRepositoryOk ==
    \E o \in BagToSet(ops) : o.kind = "crawlRepository" /\ opChain(o, "loadFiles")

CrawlRepositoryFail ==
    \E o \in BagToSet(ops) :
        o.kind = "crawlRepository" /\ opFail(o, "Failed to crawl repository")

LoadFilesOk == \E o \in BagToSet(ops) : o.kind = "loadFiles" /\ opOk(o)

LoadFilesFail ==
    \E o \in BagToSet(ops) : o.kind = "loadFiles" /\ opFail(o, "Failed to load files")

(***************************************************************************)
(* Hovering.  pointer is the line element under the mouse; an element      *)
(* receives mouseenter when the pointer comes over it and mouseleave when  *)
(* the pointer goes off it while it is on the page.                        *)
(***************************************************************************)
\* handleLineHover(lineNumber, 'pyh')
handleLineHoverPyh(lineNumber) == hoveredLine' = lineNumber

\* handleLineHover(lineNumber, 'py')
handleLineHoverPy(lineNumber) ==
    LET mappedPyhLine == MapGetLine(pyToPyhLines, lineNumber)
    IN IF mappedPyhLine # 0 THEN hoveredLine' = mappedPyhLine
       ELSE hoveredLine' = hoveredLine

\* onMouseEnter of a left-panel line: hasMapping && handleLineHover(n, 'pyh')
MouseEnterPyh ==
    /\ LinesMounted
    /\ pointer = <<>>
    /\ \E n \in 1..FinalPhyLineCount :
          /\ pointer' = <<"pyh", n>>
          /\ IF n \in DOMAIN pyhToPyRanges THEN handleLineHoverPyh(n)
             ELSE hoveredLine' = hoveredLine
    /\ monaco' = monaco
    /\ UNCHANGED <<storeVars, ops, renderVars, submitVars, server, unsavedIndicator>>

\* onMouseEnter of a right-panel line: hasMapping && handleLineHover(n, 'py')
MouseEnterPy ==
    /\ LinesMounted
    /\ pointer = <<>>
    /\ \E n \in 1..PyLineCount :
          /\ pointer' = <<"py", n>>
          /\ IF n \in DOMAIN pyToPyhLines THEN handleLineHoverPy(n)
             ELSE hoveredLine' = hoveredLine
    /\ monaco' = monaco
    /\ UNCHANGED <<storeVars, ops, renderVars, submitVars, server, unsavedIndicator>>

\* onMouseLeave of a line: handleLineLeave
MouseLeave ==
    /\ PointerOnLine
    /\ pointer' = <<>>
    /\ hoveredLine' = 0
    /\ monaco' = monaco
    /\ UNCHANGED <<storeVars, ops, renderVars, submitVars, server, unsavedIndicator>>

(***************************************************************************)
(* EditorPanel.  Each Monaco editor calls its onMount handler once; the    *)
(* mouse listeners registered there close over the handlers, and so over   *)
(* editor.lineMappings, of the render in which the editor mounted.         *)
(* deltaDecorations(old, new) removes the decorations whose ids are in old *)
(* and adds those of new.                                                  *)
(***************************************************************************)
\* Array.prototype.find: the first element satisfying the test, as a
\* one-element tuple, and the empty tuple (undefined) when there is none
Find(mappings, field, lineNumber) ==
    LET S == {k \in 1..Len(mappings) : mappings[k][field] = lineNumber}
    IN IF S = {} THEN Absent ELSE <<mappings[CHOOSE k \in S : \A j \in S : k <= j]>>

\* handlePyhEditorDidMount and handlePyEditorDidMount
MonacoMount ==
    /\ AppMounted
    /\ ~monaco.mounted
    /\ monaco' = [monaco EXCEPT !.mounted = TRUE, !.lineMappings = editor_lineMappings]
    /\ UNCHANGED <<hoveredLine, pointer>>
    /\ UNCHANGED <<storeVars, ops, renderVars, submitVars, server, unsavedIndicator>>

\* onMouseMove of the human editor: handlePyhLineHover(lineNumber)
MonacoMouseMovePyh ==
    /\ AppMounted
    /\ monaco.mounted
    /\ IF pointer = <<>> THEN TRUE ELSE pointer[1] = "monacoPyh"
    /\ \E n \in 1..pyhContent.nlines :
          /\ pointer' = <<"monacoPyh", n>>
          /\ LET mapping == Find(monaco.lineMappings, "pyhLine", n)
             IN monaco' = [monaco EXCEPT
                   !.hoveredLine = n,
                   !.pyDecorations = IF Truthy(mapping) THEN @ \cup {mapping[1].pyLine} ELSE @]
    /\ UNCHANGED hoveredLine
    /\ UNCHANGED <<storeVars, ops, renderVars, submitVars, server, unsavedIndicator>>

\* onMouseMove of the source editor: handlePyLineHover(lineNumber)
MonacoMouseMovePy ==
    /\ AppMounted
    /\ monaco.mounted
    /\ IF pointer = <<>> THEN TRUE ELSE pointer[1] = "monacoPy"
    /\ \E n \in 1..PyLineCount :
          /\ pointer' = <<"monacoPy", n>>
          /\ LET mapping == Find(monaco.lineMappings, "pyLine", n)
             IN monaco' = [monaco EXCEPT
                   !.hoveredLine = n,
                   !.pyhDecorations = IF Truthy(mapping) THEN @ \cup {mapping[1].pyhLine} ELSE @]
    /\ UNCHANGED hoveredLine
    /\ UNCHANGED <<storeVars, ops, renderVars, submitVars, server, unsavedIndicator>>

\* onMouseLeave of either editor: clearHighlights, whose
\* deltaDecorations([], []) names no decoration to remove
MonacoMouseLeave ==
    /\ pointer # <<>> /\ pointer[1] \in {"monacoPyh", "monacoPy"}
    /\ pointer' = <<>>
    /\ monaco' = [monaco EXCEPT !.hoveredLine = 0]
    /\ UNCHANGED hoveredLine
    /\ UNCHANGED <<storeVars, ops, renderVars, submitVars, server, unsavedIndicator>>

(***************************************************************************)
(* Editing and the store's diff list.                                      *)
(***************************************************************************)
\* handlePyhChange -> updatePyhContent(newContent)
UpdatePyhContent ==
    /\ LinesMounted
    /\ pyhContent' = EditedText
    /\ hasUnsavedChanges' = TRUE
    /\ UNCHANGED <<selectedFile, pyContent, editor_lineMappings, pyhData, diffs,
                   isLoading, error>>
    /\ Rerender
    /\ unsavedIndicator' = TRUE
    /\ UNCHANGED <<ops, hoveredLine, pointer, monaco, submitVars, server>>

\* addDiff(diff)
AddDiff ==
    /\ Len(diffs) < MaxDiffs
    /\ diffs' = Append(diffs, [type |-> "modified"])
    /\ UNCHANGED <<selectedFile, pyContent, pyhContent, editor_lineMappings, pyhData,
                   hasUnsavedChanges, isLoading, error>>
    /\ UNCHANGED <<ops, renderVars, hoverVars, submitVars, server>>

(***************************************************************************)
(* SubmitButton.  variant "phy" is the button that awaits the store's      *)
(* applyPhyChanges; variant "diff" is the button that posts the diffs      *)
(* itself.  The answer to an apply request is one of Outcomes: "success",  *)
(* "unsuccessful" (an ok response that reports failure), "notok" (a non-ok *)
(* response) and "rejected" (the fetch itself fails).                      *)
(***************************************************************************)
Outcomes == {"success", "unsuccessful", "notok", "rejected"}

FailedOutcomes == Outcomes \ {"success"}

\* isDisabled without the isSubmitting flag
SubmitDisabled_ignoresSubmitting ==
    \/ selectedFile = ""
    \/ variant = "diff" /\ diffs = <<>>

\* isDisabled
SubmitDisabled ==
    \/ selectedFile = ""
    \/ variant = "diff" /\ diffs = <<>>
    \/ isSubmitting

\* the apply requests in flight
ApplyOps == {o \in BagToSet(ops) : o.kind = "apply"}

ApplyCount == BagCardinality([o \in ApplyOps |-> ops[o]])

\* handleSubmit, up to its await
Submit ==
    /\ AppMounted
    /\ variant \in {"phy", "diff"}
    /\ ~SubmitDisabled
    /\ Outstanding < MaxOps
    /\ isSubmitting' = TRUE
    /\ submitStatus' = "idle"
    /\ submitMessage' = "Applying changes..."
    /\ ops' = ops (+) SetToBag({Op("apply", selectedFile, "handleSubmit", "none")})
    /\ UNCHANGED <<variant, timers, server, renderVars>>
    /\ UNCHANGED <<selectedFile, pyContent, pyhContent, editor_lineMappings, pyhData,
                   hasUnsavedChanges, diffs>>
    /\ IF variant = "phy"
       THEN \* applyPhyChanges: set({isLoading: true, error: null})
            /\ isLoading' = TRUE
            /\ error' = ""
            /\ Unmount
       ELSE UNCHANGED <<isLoading, error, hoverVars>>

\* applyPhyChanges after its fetch, and handleSubmit after its await
applyPhyChangesSettle(o, outcome) ==
    /\ IF outcome \in {"success", "unsuccessful"}
       THEN /\ hasUnsavedChanges' = FALSE
            /\ diffs' = <<>>
            /\ isLoading' = FALSE
            /\ UNCHANGED error
       ELSE /\ error' = "Failed to apply PHY changes"
            /\ isLoading' = FALSE
            /\ UNCHANGED <<hasUnsavedChanges, diffs>>
    /\ submitStatus' = "success"
    /\ submitMessage' = "PHY changes applied successfully!"
    /\ timers' = timers (+) SetToBag({[kind |-> "reloadFile", file |-> o.file, after |-> outcome]})
    /\ isSubmitting' = FALSE

\* handleSubmit of the diff button with setIsSubmitting(false) at the end of
\* the try block instead of in finally
handleSubmitSettle_noFinally(o, outcome) ==
    /\ IF outcome = "success"
       THEN /\ submitStatus' = "success"
            /\ submitMessage' = "Changes applied successfully! All tests passed."
            /\ diffs' = <<>>
            /\ timers' = timers (+) SetToBag({[kind |-> "reloadPage", file |-> o.file, after |-> outcome]})
            /\ isSubmitting' = FALSE
       ELSE /\ submitStatus' = "error"
            /\ submitMessage' = IF outcome = "unsuccessful" THEN "result.error"
                                ELSE "Failed to apply changes"
            /\ UNCHANGED <<diffs, timers, isSubmitting>>
    /\ UNCHANGED <<hasUnsavedChanges, isLoading, error>>

\* handleSubmit of the diff button after its fetch
handleSubmitSettle(o, outcome) ==
    /\ IF outcome = "success"
       THEN /\ submitStatus' = "success"
            /\ submitMessage' = "Changes applied successfully! All tests passed."
            /\ diffs' = <<>>
            /\ timers' = timers (+) SetToBag({[kind |-> "reloadPage", file |-> o.file, after |-> outcome]})
       ELSE /\ submitStatus' = "error"
            /\ submitMessage' = IF outcome = "unsuccessful" THEN "result.error"
                                ELSE "Failed to apply changes"
            /\ UNCHANGED <<diffs, timers>>
    /\ isSubmitting' = FALSE
    /\ UNCHANGED <<hasUnsavedChanges, isLoading, error>>

applySettle(o, outcome) ==
    /\ o.kind = "apply"
    /\ ops' = ops (-) SetToBag({o})
    /\ IF variant = "phy" THEN applyPhyChangesSettle(o, outcome)
       ELSE handleSubmitSettle(o, outcome)
    /\ UNCHANGED <<selectedFile, pyContent, pyhContent, editor_lineMappings, pyhData>>
    /\ UNCHANGED <<variant, renderVars, hoverVars, server>>

\* an apply request in flight is answered with the given outcome
ApplySettled(outcome) == \E o \in BagToSet(ops) : applySettle(o, outcome)

ApplySettle == \E outcome \in Outcomes : \E o \in BagToSet(ops) : applySettle(o, outcome)

\* the 2000 ms timer of the "phy" button: await selectFile(selectedFile)
ReloadTimer ==
    \E t \in BagToSet(timers) :
        /\ t.kind = "reloadFile"
        /\ timers' = timers (-) SetToBag({t})
        /\ selectFileBegin(t.file, "reload", t.after)
        /\ UNCHANGED <<variant, isSubmitting, submitStatus, submitMessage, server>>

\* the 2000 ms timer of the "diff" button: window.location.reload()
PageReload ==
    /\ \E t \in BagToSet(timers) : t.kind = "reloadPage"
    /\ selectedFile' = ""
    /\ pyContent' = Absent
    /\ pyhContent' = EmptyText
    /\ editor_lineMappings' = <<>>
    /\ pyhData' = Absent
    /\ hasUnsavedChanges' = FALSE
    /\ diffs' = <<>>
    /\ isLoading' = FALSE
    /\ error' = ""
    /\ ops' = EmptyBag
    /\ RenderPass(FALSE)
    /\ hoveredLine' = 0
    /\ pointer' = <<>>
    /\ monaco' = MonacoInit
    /\ unsavedIndicator' = FALSE
    /\ isSubmitting' = FALSE
    /\ submitStatus' = "idle"
    /\ submitMessage' = ""
    /\ timers' = EmptyBag
    /\ UNCHANGED <<variant, server>>

(***************************************************************************)
(* SendButton (variant "send").  Its props are inputs: isDisabled, and     *)
(* onSend, an asynchronous function that resolves or rejects.  Its         *)
(* in-flight flag, the useState isLoading of the component, is held in     *)
(* isSubmitting.                                                           *)
(***************************************************************************)
\* handleSend, up to await onSend()
HandleSend ==
    /\ AppMounted
    /\ variant = "send"
    /\ Outstanding < MaxOps
    /\ \E isDisabled \in BOOLEAN :
          /\ ~(isDisabled \/ isSubmitting)
          /\ isSubmitting' = TRUE
          /\ ops' = ops (+) SetToBag({Op("send", selectedFile, "handleSend", "none")})
    /\ UNCHANGED <<storeVars, renderVars, hoverVars, server>>
    /\ UNCHANGED <<variant, submitStatus, submitMessage, timers>>

\* onSend() resolves or rejects: finally { setIsLoading(false) }
SendSettle ==
    \E o \in BagToSet(ops) : \E outcome \in {"resolved", "rejected"} :
        /\ o.kind = "send"
        /\ ops' = ops (-) SetToBag({o})
        /\ isSubmitting' = FALSE
        /\ UNCHANGED <<storeVars, renderVars, hoverVars, server>>
        /\ UNCHANGED <<variant, submitStatus, submitMessage, timers>>

(***************************************************************************)
(* SpecRender: the renderer and the index as functions of the tree.  A     *)
(* tree is put in the store and the component renders and indexes it.      *)
(***************************************************************************)
InitRender ==
    /\ InitStore /\ InitRenderVars /\ InitHover /\ InitSubmit
    /\ variant = "phy"
    /\ server = PlainServer

\* setEditor({pyhData}): a tree arrives in the store; the component renders
SetEditorTree ==
    /\ pyhData = Absent
    /\ \E n \in 1..MaxNodes : \E p \in ParentMaps(n) : \E c \in [1..n -> NodeContents] :
          pyhData' = MkTree(n, p, c)
    /\ UNCHANGED <<selectedFile, pyContent, pyhContent, editor_lineMappings,
                   hasUnsavedChanges, diffs, isLoading, error>>
    /\ Rerender
    /\ UNCHANGED <<ops, hoverVars, submitVars, server>>

NextRender == SetEditorTree

SpecRender == InitRender /\ [][NextRender]_vars

(***************************************************************************)
(* SpecHover: files are loaded and the pointer moves over the lines.       *)
(***************************************************************************)
InitHoverSpec ==
    /\ InitStore /\ InitRenderVars /\ InitHover /\ InitSubmit
    /\ variant = "phy"
    /\ server \in Servers

NextHover ==
    \/ SelectFile
    \/ SelectFileOk
    \/ SelectFileFail
    \/ MouseEnterPyh
    \/ MouseEnterPy
    \/ MouseLeave

SpecHover == InitHoverSpec /\ [][NextHover]_vars

(***************************************************************************)
(* SpecApply: a file is loaded, edited and submitted.                      *)
(***************************************************************************)
InitApply ==
    /\ InitStore /\ InitRenderVars /\ InitHover /\ InitSubmit
    /\ variant \in {"phy", "diff"}
    /\ server = PlainServer

NextApply ==
    \/ SelectFile
    \/ SelectFileOk
    \/ SelectFileFail
    \/ UpdatePyhContent
    \/ AddDiff
    \/ Submit
    \/ ApplySettle
    \/ ReloadTimer
    \/ PageReload

SpecApply == InitApply /\ [][NextApply]_vars

(***************************************************************************)
(* SpecStore: the asynchronous operations of the store, overlapping.       *)
(***************************************************************************)
InitStoreSpec ==
    /\ InitStore /\ InitRenderVars /\ InitHover /\ InitSubmit
    /\ variant = "phy"
    /\ server \in {[content |-> PyText, pyh |-> Absent], PlainServer}

NextStore ==
    \/ SelectFile
    \/ SelectFileOk
    \/ SelectFileFail
    \/ SelectFileNotOk
    \/ UpdatePyhContent
    \/ AddDiff
    \/ Submit
    \/ ApplySettle
    \/ ReloadTimer
    \/ SaveUserPhy
    \/ SaveUserPhyOk
    \/ SaveUserPhyFail
    \/ CloneGitHubRepo
    \/ CloneGitHubRepoOk
    \/ CloneGitHubRepoFail
    \/ CrawlRepository
    \/ CrawlRepositoryOk
    \/ CrawlRepositoryFail
    \/ LoadFilesOk
    \/ LoadFilesFail

SpecStore == InitStoreSpec /\ [][NextStore]_vars

(***************************************************************************)
(* SpecSession: two files; one is loaded and edited, then the other is     *)
(* selected.                                                               *)
(***************************************************************************)
SessionFiles == {"a.py", "b.py"}

\* handleFileSelect: one of the files is chosen in the explorer
SelectSessionFile ==
    /\ AppMounted
    /\ Outstanding < MaxOps
    /\ \E file \in SessionFiles : selectFileBegin(file, "none", "none")
    /\ UNCHANGED <<submitVars, server>>

NextSession ==
    \/ SelectSessionFile
    \/ SelectFileOk
    \/ SelectFileFail
    \/ UpdatePyhContent
    \/ AddDiff
    \/ Submit
    \/ ApplySettle
    \/ ReloadTimer
    \/ PageReload

SpecSession == InitApply /\ [][NextSession]_vars

(***************************************************************************)
(* SpecSwitch: file a.py is selected, and file b.py is selected while the  *)
(* load of a.py is still in flight; the two answers arrive in any order.   *)
(***************************************************************************)
LoadsOf(file) == {o \in BagToSet(ops) : o.kind = "selectFile" /\ o.file = file}

\* handleFileSelect("a.py"), the first selection
SelectFileA ==
    /\ AppMounted
    /\ selectedFile = "" /\ ops = EmptyBag /\ error = ""
    /\ selectFileBegin("a.py", "none", "none")
    /\ UNCHANGED <<submitVars, server>>

\* handleFileSelect("b.py") before the load of a.py has answered
SelectFileB ==
    /\ AppMounted
    /\ LoadsOf("a.py") # {} /\ LoadsOf("b.py") = {} /\ selectedFile = "" /\ error = ""
    /\ selectFileBegin("b.py", "none", "none")
    /\ UNCHANGED <<submitVars, server>>

NextSwitch == SelectFileA \/ SelectFileB \/ SelectFileOk \/ SelectFileFail

SpecSwitch == InitHoverSpec /\ [][NextSwitch]_vars

(***************************************************************************)
(* SpecRaw: as SpecHover, with backends that also send line mappings with  *)
(* the raw human text.                                                     *)
(***************************************************************************)
\* a LineMapping of the response; pyLineRange is optional
RawMapping == [pyhLine : {1}, pyLine : {1}, pyLineRange : {<<1, 1>>, <<1, 2>>, Absent}, nodeId : {0}]

RawMappingSeqs == {<<>>} \cup {<<m>> : m \in RawMapping}

RawServers ==
    {[content |-> PyText,
      pyh |-> [content |-> ServedText, line_mappings |-> raw, phy_data |-> t]] :
        raw \in RawMappingSeqs, t \in ServedTrees \cup {Absent}}

InitRaw ==
    /\ InitStore /\ InitRenderVars /\ InitHover /\ InitSubmit
    /\ variant = "phy"
    /\ server \in RawServers

SpecRaw == InitRaw /\ [][NextHover]_vars

(***************************************************************************)
(* SpecLive: SpecApply with the three submit controls, where every request *)
(* in flight is answered: a fetch promise resolves or rejects, and the     *)
(* timers awaited by onSend run out.                                       *)
(***************************************************************************)
InitLive ==
    /\ InitStore /\ InitRenderVars /\ InitHover /\ InitSubmit
    /\ variant \in {"phy", "diff", "send"}
    /\ server = PlainServer

NextLive ==
    \/ SelectFile
    \/ SelectFileOk
    \/ SelectFileFail
    \/ UpdatePyhContent
    \/ AddDiff
    \/ Submit
    \/ ApplySettle
    \/ ReloadTimer
    \/ PageReload
    \/ HandleSend
    \/ SendSettle

SpecLive ==
    /\ InitLive
    /\ [][NextLive]_vars
    /\ WF_vars(ApplySettle)
    /\ WF_vars(SendSettle)

(***************************************************************************)
(* SpecStoreLive: SpecStore with the requests answered.  A fetch in flight *)
(* is eventually answered or rejected, and a timer set eventually runs.    *)
(***************************************************************************)
\* a request of an operation in flight is answered or rejected
Respond ==
    \/ SelectFileOk
    \/ SelectFileFail
    \/ SelectFileNotOk
    \/ ApplySettle
    \/ SaveUserPhyOk
    \/ SaveUserPhyFail
    \/ CloneGitHubRepoOk
    \/ CloneGitHubRepoFail
    \/ CrawlRepositoryOk
    \/ CrawlRepositoryFail
    \/ LoadFilesOk
    \/ LoadFilesFail

SpecStoreLive ==
    /\ InitStoreSpec
    /\ [][NextStore]_vars
    /\ WF_vars(Respond)
    /\ WF_vars(ReloadTimer)

(***************************************************************************)
(* SpecPanels: files are loaded and the pointer moves over the lines of    *)
(* TwoPanelEditor and over the editors of EditorPanel.                     *)
(***************************************************************************)
\* the backends that send the raw text with its mappings and no tree
InitPanels ==
    /\ InitStore /\ InitRenderVars /\ InitHover /\ InitSubmit
    /\ variant = "phy"
    /\ server \in {s \in RawServers : s.pyh.phy_data = Absent}

NextPanels ==
    \/ SelectFile
    \/ SelectFileOk
    \/ SelectFileFail
    \/ MouseEnterPyh
    \/ MouseEnterPy
    \/ MouseLeave
    \/ MonacoMount
    \/ MonacoMouseMovePyh
    \/ MonacoMouseMovePy
    \/ MonacoMouseLeave

SpecPanels == InitPanels /\ [][NextPanels]_vars

(***************************************************************************)
(* SpecDiff: SpecApply where the user may also type the human text back to *)
(* what was loaded.                                                        *)
(***************************************************************************)
\* the human text as the backend last served it
LastSaved == IF Truthy(server.pyh) THEN server.pyh.content ELSE EmptyText

\* handlePyhChange with the loaded text typed back: updatePyhContent(content)
RetypeSaved ==
    /\ LinesMounted
    /\ pyhContent # LastSaved
    /\ pyhContent' = LastSaved
    /\ hasUnsavedChanges' = TRUE
    /\ UNCHANGED <<selectedFile, pyContent, editor_lineMappings, pyhData, diffs,
                   isLoading, error>>
    /\ Rerender
    /\ unsavedIndicator' = TRUE
    /\ UNCHANGED <<ops, hoveredLine, pointer, monaco, submitVars, server>>

NextDiff ==
    \/ SelectFile
    \/ SelectFileOk
    \/ SelectFileFail
    \/ UpdatePyhContent
    \/ RetypeSaved
    \/ AddDiff
    \/ Submit
    \/ ApplySettle
    \/ ReloadTimer
    \/ PageReload

SpecDiff == InitApply /\ [][NextDiff]_vars

(***************************************************************************)
(* SpecScenario: small trees whose nodes carry any source range up to      *)
(* MaxLine, for claims that name concrete ranges.                          *)
(***************************************************************************)
MaxLine == 3

MaxWideNodes == 2

WideRanges == {r \in (1..MaxLine) \X (1..MaxLine) : r[1] <= r[2]}

WideContents == [hasSig : BOOLEAN, hasDesc : BOOLEAN, line_range : WideRanges \cup {Absent}]

\* setEditor({pyhData}): a tree arrives in the store; the component renders
SetEditorWideTree ==
    /\ pyhData = Absent
    /\ \E n \in 1..MaxWideNodes : \E p \in ParentMaps(n) : \E c \in [1..n -> WideContents] :
          pyhData' = MkTree(n, p, c)
    /\ UNCHANGED <<selectedFile, pyContent, pyhContent, editor_lineMappings,
                   hasUnsavedChanges, diffs, isLoading, error>>
    /\ Rerender
    /\ UNCHANGED <<ops, hoverVars, submitVars, server>>

NextScenario == SetEditorWideTree

SpecScenario == InitRender /\ [][NextScenario]_vars

(***************************************************************************)
(* SpecMalformed: a tree with a defect reaches the renderer, either as the *)
(* store's tree data or inside the human text that JSON.parse reads.       *)
(***************************************************************************)
DefectKinds == {"nullFirst", "nullLast", "notIterable"}

\* tree t with node i's children value damaged
WithDefect(t, i, kind) ==
    [t EXCEPT ![i].children =
        CASE kind = "nullFirst" -> <<NullChild>> \o @
          [] kind = "nullLast" -> Append(@, NullChild)
          [] OTHER -> NotIterable]

JsonText(tree) == [text |-> "json", nlines |-> 1, json |-> tree]

\* setEditor({pyhData}) with a damaged tree
SetEditorMalformedData ==
    /\ pyhData = Absent /\ pyhContent = EmptyText
    /\ \E t \in ServedTrees : \E i \in DOMAIN t : \E kind \in DefectKinds :
          pyhData' = WithDefect(t, i, kind)
    /\ UNCHANGED <<selectedFile, pyContent, pyhContent, editor_lineMappings,
                   hasUnsavedChanges, diffs, isLoading, error>>
    /\ Rerender
    /\ UNCHANGED <<ops, hoverVars, submitVars, server>>

\* setEditor({pyhContent}) with the JSON text of a damaged tree
SetEditorMalformedContent ==
    /\ pyhData = Absent /\ pyhContent = EmptyText
    /\ \E t \in ServedTrees : \E i \in DOMAIN t : \E kind \in DefectKinds :
          pyhContent' = JsonText(WithDefect(t, i, kind))
    /\ UNCHANGED <<selectedFile, pyContent, pyhData, editor_lineMappings,
                   hasUnsavedChanges, diffs, isLoading, error>>
    /\ Rerender
    /\ UNCHANGED <<ops, hoverVars, submitVars, server>>

NextMalformed ==
    \/ SetEditorMalformedData
    \/ SetEditorMalformedContent

SpecMalformed == InitRender /\ [][NextMalformed]_vars

\* the render pass of a tree in the store has run
Indexed == Truthy(pyhData)

\* the display lines emitted for node i
LinesOf(i) == {k \in 1..Len(lines) : lines[k].text[2] = i}

RECURSIVE Subtree(_, _)
Subtree(t, i) == {i} \cup UNION {Subtree(t, t[i].children[k]) : k \in 1..Len(t[i].children)}

(***************************************************************************)
(* Claims about the renderer and the index (SpecRender).                   *)
(***************************************************************************)

\* C1: round trip of the line map.  After a tree is rendered and indexed,
\* for every node that has a source range, every display line emitted for
\* it (signature line, description line) maps back by sourceRangeFor to
\* exactly that node's range.
C1_RoundTrip ==
    Indexed =>
        \A i \in DOMAIN pyhData :
            Truthy(pyhData[i].line_range) =>
                \A k \in LinesOf(i) : sourceRangeFor(k) = pyhData[i].line_range

\* a rendered tree in which a node with a range emitted two lines, below a
\* parent that has another range, and both lines map back to the node's range
C1_Witness ==
    /\ Indexed
    /\ \E i \in DOMAIN pyhData : \E j \in DOMAIN pyhData :
          /\ i \in Subtree(pyhData, j) \ {j}
          /\ Truthy(pyhData[i].line_range) /\ Truthy(pyhData[j].line_range)
          /\ pyhData[i].line_range # pyhData[j].line_range
          /\ Cardinality(LinesOf(i)) = 2
          /\ \A k \in LinesOf(i) : sourceRangeFor(k) = pyhData[i].line_range

RangeOf(k) == lineMappings[k].pyLineRange

Disjoint(r1, r2) == r1[2] < r2[1] \/ r2[2] < r1[1]

\* C2 as stated: for every recorded mapping with range [a,b], humanLineFor
\* gives one and the same human line for every source line of [a,b], also
\* when a child's range lies inside its ancestor's.
C2_SameLineInRange ==
    Indexed =>
        \A k \in 1..Len(lineMappings) :
            \A s1 \in RangeOf(k)[1]..RangeOf(k)[2] :
                \A s2 \in RangeOf(k)[1]..RangeOf(k)[2] :
                    humanLineFor(s1) = humanLineFor(s2)

\* no mapping recorded after mapping k overlaps its range with another range
NotOverlappedLater(k) ==
    \A j \in (k + 1)..Len(lineMappings) :
        RangeOf(j) = RangeOf(k) \/ Disjoint(RangeOf(j), RangeOf(k))

\* C2 as amended: for every recorded mapping with range [a,b] such that
\* every mapping recorded after it has the same range or a range disjoint
\* from [a,b], humanLineFor is defined on all of [a,b] and gives one and the
\* same human line for every source line of [a,b].
C2_SameLineUnlessOverlapped ==
    Indexed =>
        \A k \in 1..Len(lineMappings) :
            NotOverlappedLater(k) =>
                \A s1 \in RangeOf(k)[1]..RangeOf(k)[2] :
                    /\ humanLineFor(s1) # 0
                    /\ \A s2 \in RangeOf(k)[1]..RangeOf(k)[2] :
                          humanLineFor(s1) = humanLineFor(s2)

\* a mapping of a range of two lines or more, recorded after a mapping of a
\* different overlapping range, and not overlapped later
C2_Witness ==
    /\ Indexed
    /\ \E k \in 1..Len(lineMappings) : \E j \in 1..Len(lineMappings) :
          /\ j < k
          /\ RangeOf(j) # RangeOf(k) /\ ~Disjoint(RangeOf(j), RangeOf(k))
          /\ RangeOf(k)[1] < RangeOf(k)[2]
          /\ NotOverlappedLater(k)
          /\ \A s \in RangeOf(k)[1]..RangeOf(k)[2] : humanLineFor(s) = lineMappings[k].pyhLine

MappingsOf(i) == {k \in 1..Len(lineMappings) : lineMappings[k].nodeId = i}

\* C22: in the mappings returned by one render, the human line numbers are
\* strictly increasing (hence pairwise distinct), each lies in 1..(number of
\* rendered lines), each is a line emitted for the node the mapping names,
\* and a node that emitted no line or has no source range has no mapping.
C22_MappingLines ==
    Indexed =>
        /\ \A k \in 1..Len(lineMappings) :
              /\ lineMappings[k].pyhLine \in 1..Len(lines)
              /\ lineMappings[k].pyhLine \in LinesOf(lineMappings[k].nodeId)
              /\ \A j \in 1..(k - 1) : lineMappings[j].pyhLine < lineMappings[k].pyhLine
        /\ \A i \in DOMAIN pyhData :
              (LinesOf(i) = {} \/ ~Truthy(pyhData[i].line_range)) => MappingsOf(i) = {}

\* a render with two mappings or more, a node that emitted a line but has no
\* range, and a node that has a range but emitted no line
C22_Witness ==
    /\ Indexed
    /\ Len(lineMappings) >= 2
    /\ \E i \in DOMAIN pyhData : LinesOf(i) # {} /\ ~Truthy(pyhData[i].line_range)
    /\ \E i \in DOMAIN pyhData : LinesOf(i) = {} /\ Truthy(pyhData[i].line_range)
    /\ \A k \in 1..Len(lineMappings) : lineMappings[k].pyhLine \in LinesOf(lineMappings[k].nodeId)

\* the parent of node i, and its depth (the root at depth 0)
ParentOf(t, i) == CHOOSE j \in DOMAIN t : \E k \in 1..Len(t[j].children) : t[j].children[k] = i

RECURSIVE Depth(_, _)
Depth(t, i) == IF i = 1 THEN 0 ELSE 1 + Depth(t, ParentOf(t, i))

IsSignatureLine(k) == lines[k].text[1] = "sig"

\* C23: indentation.  The signature line of a node at depth d is indented d
\* units; its description line is indented d+1 units when the node has a
\* signature and d units when it has none.
C23_Indentation ==
    Indexed =>
        \A i \in DOMAIN pyhData : \A k \in LinesOf(i) :
            lines[k].pad = IF IsSignatureLine(k) THEN Depth(pyhData, i)
                           ELSE IF Truthy(pyhData[i].signature) THEN Depth(pyhData, i) + 1
                           ELSE Depth(pyhData, i)

\* a node at depth 2 with both lines (pads 2 and 3) under a node that has a
\* description only (pad 1)
C23_Witness ==
    /\ Indexed
    /\ \E i \in DOMAIN pyhData : \E j \in DOMAIN pyhData :
          /\ Depth(pyhData, i) = 2 /\ Depth(pyhData, j) = 1
          /\ {lines[k].pad : k \in LinesOf(i)} = {2, 3}
          /\ ~Truthy(pyhData[j].signature)
          /\ {lines[k].pad : k \in LinesOf(j)} = {1}

\* a node with neither signature nor description
Grouping(i) == ~Truthy(pyhData[i].signature) /\ ~Truthy(pyhData[i].description)

\* the number of signature and description fields present in the tree
RECURSIVE FieldCount(_, _)
FieldCount(t, n) ==
    IF n = 0 THEN 0
    ELSE FieldCount(t, n - 1) + (IF Truthy(t[n].signature) THEN 1 ELSE 0)
                              + (IF Truthy(t[n].description) THEN 1 ELSE 0)

\* the display lines emitted for node i and its descendants
SubtreeLines(i) == UNION {LinesOf(j) : j \in Subtree(pyhData, i)}

\* C24: a node with neither signature nor description emits no line and no
\* mapping; each of its children is still rendered (one line per field it
\* has), one indent unit deeper than the grouping node, and the children's
\* subtrees appear in the order of the children array; the number of
\* rendered lines is the number of signatures plus the number of
\* descriptions present in the tree.
C24_GroupingNode ==
    Indexed =>
        /\ \A i \in DOMAIN pyhData :
              Grouping(i) =>
                  /\ LinesOf(i) = {} /\ MappingsOf(i) = {}
                  /\ \A a \in 1..Len(pyhData[i].children) :
                        LET c == pyhData[i].children[a]
                        IN /\ Cardinality(LinesOf(c)) = FieldCount(pyhData, c) - FieldCount(pyhData, c - 1)
                           /\ \A k \in LinesOf(c) :
                                 lines[k].pad = Depth(pyhData, i) + 1 +
                                     (IF ~IsSignatureLine(k) /\ Truthy(pyhData[c].signature) THEN 1 ELSE 0)
                           /\ \A b \in (a + 1)..Len(pyhData[i].children) :
                                 \A ka \in SubtreeLines(c) :
                                     \A kb \in SubtreeLines(pyhData[i].children[b]) : ka < kb
        /\ Len(lines) = FieldCount(pyhData, Len(pyhData))

\* a root with neither field and a range, whose two children both emitted
\* lines, at pad 1, the first child's before the second's
C24_Witness ==
    /\ Indexed
    /\ Grouping(1) /\ Truthy(pyhData[1].line_range)
    /\ Len(pyhData[1].children) = 2
    /\ LinesOf(2) # {} /\ LinesOf(3) # {}
    /\ \A ka \in LinesOf(2) : \A kb \in LinesOf(3) : ka < kb
    /\ lines[1].pad = 1
    /\ Len(lines) = FieldCount(pyhData, 3)

\* C25: the forward and the reverse map are coherent.  For every source
\* line s with humanLineFor(s) = h, sourceRangeFor(h) is defined and its
\* range contains s.
C25_Coherent ==
    Indexed =>
        \A s \in 1..MaxPy :
            humanLineFor(s) # 0 =>
                /\ Truthy(sourceRangeFor(humanLineFor(s)))
                /\ sourceRangeFor(humanLineFor(s))[1] <= s
                /\ s <= sourceRangeFor(humanLineFor(s))[2]

\* two source lines that map to different human lines, the first of them to
\* a line whose range holds both
C25_Witness ==
    /\ Indexed
    /\ humanLineFor(1) # 0 /\ humanLineFor(2) # 0
    /\ humanLineFor(1) # humanLineFor(2)
    /\ sourceRangeFor(humanLineFor(1)) = <<1, 2>>
    /\ sourceRangeFor(humanLineFor(2)) = <<2, 2>>

(***************************************************************************)
(* Claims about hovering (SpecHover).                                      *)
(***************************************************************************)
PointerOn(panel) == pointer # <<>> /\ pointer[1] = panel

\* C3: hover on the human side.  While the pointer is over human line L,
\* the set of highlighted source lines is exactly start..end when
\* sourceRangeFor(L) = [start,end] is defined, and is empty when L has no
\* mapping.
C3_HoverHuman ==
    PointerOn("pyh") =>
        LET range == sourceRangeFor(pointer[2])
        IN HighlightedPy = IF Truthy(range) THEN range[1]..range[2] ELSE {}

\* C4: hover on the source side.  While the pointer is over source line s,
\* the set of highlighted human lines is exactly {humanLineFor(s)} when
\* that lookup is defined, and is empty when s has no mapping.
C4_HoverSource ==
    PointerOn("py") =>
        LET h == humanLineFor(pointer[2])
        IN HighlightedPyh = IF h # 0 THEN {h} ELSE {}

\* C14: the highlight state never references a stale index.  Every step
\* in which a file load completes, so that the component builds a new
\* index from the loaded tree and mappings, leaves the hovered line none.
C14_HoverResetOnNewIndex == [][SelectFileOk => hoveredLine' = 0]_vars

(***************************************************************************)
(* Claims about applying (SpecApply).                                      *)
(***************************************************************************)
\* the edit session: an apply is in flight, or else the store holds
\* unsaved work, or else it holds none
Applying == ApplyCount > 0

CleanData == diffs = <<>> /\ ~hasUnsavedChanges

Dirty == ~Applying /\ ~CleanData

Clean == ~Applying /\ CleanData

\* C5: at most one apply is in flight.  In every state at most one apply
\* request is outstanding, and while one is outstanding the submit control
\* is disabled, so a further submit starts no request and changes nothing.
C5_SingleApply ==
    /\ ApplyCount <= 1
    /\ Applying => SubmitDisabled

\* an apply is in flight for a selected file with unsaved work, while
\* there is room for another operation to start
C5_Witness ==
    /\ Applying
    /\ selectedFile # ""
    /\ hasUnsavedChanges
    /\ Outstanding < MaxOps
    /\ SubmitDisabled

\* the reload scheduled by a failed apply completes
ReloadAfterFailure ==
    \E o \in BagToSet(ops) : o.cont = "reload" /\ o.after \in FailedOutcomes /\ selectFileOk(o)

\* C6: a failed apply preserves the pending work.  When an apply fails
\* (rejected request, non-ok response, reported failure), neither its
\* settling nor the reload it schedules changes the pending diffs or the
\* unsaved-changes flag.
C6_FailedApplyPreserves ==
    [][((\E r \in FailedOutcomes : ApplySettled(r)) \/ ReloadAfterFailure)
          => UNCHANGED <<diffs, hasUnsavedChanges>>]_vars

\* C7: a rejected apply is surfaced.  When an apply that the backend
\* rejects (non-ok response or reported failure) settles, the submit
\* control shows the error status with a message, not success.
C7_RejectionSurfaced ==
    [][(\E r \in {"unsuccessful", "notok"} : ApplySettled(r))
          => submitStatus' = "error" /\ submitMessage' # ""]_vars

\* C8: success returns to Clean, and only success.  When an apply settles
\* with success, the diffs are empty and hasUnsavedChanges is false
\* afterwards; when it settles otherwise, both are left as they were.
C8_CleanOnlyOnSuccess ==
    [][\A r \in Outcomes :
          ApplySettled(r) =>
              IF r = "success" THEN CleanData'
              ELSE UNCHANGED <<diffs, hasUnsavedChanges>>]_vars

\* C9: the edit-session state machine.  Within one file: an edit in Clean
\* leads to Dirty; in Dirty with a file selected the submit control is
\* enabled and a submit leads to Applying; Applying is left by a settling
\* apply, to Clean on success and not to Clean on failure; and no step
\* leads from Dirty straight to Clean.
C9_SessionMachine ==
    [][/\ (Clean /\ UpdatePyhContent) => Dirty'
       /\ (Dirty /\ selectedFile # "") => ~SubmitDisabled
       /\ (Dirty /\ Submit) => Applying'
       /\ (Applying /\ ~Applying') =>
             \/ ApplySettled("success") /\ Clean'
             \/ (\E r \in FailedOutcomes : ApplySettled(r)) /\ ~Clean'
       /\ (Dirty /\ selectedFile' = selectedFile) => ~Clean']_vars

\* the recorded mappings whose range covers source line s, in render order
Covering(s) ==
    {k \in 1..Len(lineMappings) : RangeOf(k)[1] <= s /\ s <= RangeOf(k)[2]}

Latest(S) == CHOOSE k \in S : \A j \in S : j <= k

\* C12: the reverse map is last-write-wins in mapping order.  For every
\* source line s covered by recorded mappings, humanLineFor(s) is the human
\* line of the last mapping covering s in render order; hence for an
\* ancestor and a descendant that both recorded mappings and whose ranges
\* both hold s, with no mapping recorded after the descendant's covering s,
\* humanLineFor(s) is a line of the descendant.
C12_LastWriteWins ==
    Indexed =>
        /\ \A s \in 1..MaxPy :
              /\ Covering(s) # {} => humanLineFor(s) = lineMappings[Latest(Covering(s))].pyhLine
              /\ Covering(s) = {} => humanLineFor(s) = 0
        /\ \A j \in DOMAIN pyhData : \A i \in Subtree(pyhData, j) \ {j} :
              \A s \in 1..MaxPy :
                  ( /\ Truthy(pyhData[i].line_range) /\ Truthy(pyhData[j].line_range)
                    /\ s \in pyhData[i].line_range[1]..pyhData[i].line_range[2]
                    /\ s \in pyhData[j].line_range[1]..pyhData[j].line_range[2]
                    /\ LinesOf(i) # {} /\ LinesOf(j) # {}
                    /\ \A k \in Covering(s) : lineMappings[k].pyhLine <= Latest(LinesOf(i)) )
                  => humanLineFor(s) \in LinesOf(i)

\* a source line inside an ancestor's range and a descendant's different
\* range, covered by three mappings or more, resolving to the descendant
C12_Witness ==
    /\ Indexed
    /\ \E j \in DOMAIN pyhData : \E i \in Subtree(pyhData, j) \ {j} : \E s \in 1..MaxPy :
          /\ Truthy(pyhData[i].line_range) /\ Truthy(pyhData[j].line_range)
          /\ pyhData[i].line_range # pyhData[j].line_range
          /\ s \in pyhData[i].line_range[1]..pyhData[i].line_range[2]
          /\ s \in pyhData[j].line_range[1]..pyhData[j].line_range[2]
          /\ Cardinality(Covering(s)) >= 3
          /\ humanLineFor(s) \in LinesOf(i)
          /\ humanLineFor(s) = lineMappings[Latest(Covering(s))].pyhLine

\* the delayed reload that follows a successful apply is pending (its timer
\* is running or its selectFile is in flight) and the human text was edited
\* since the apply settled (a settled apply leaves hasUnsavedChanges false)
EditedDuringReload ==
    /\ variant = "phy"
    /\ hasUnsavedChanges /\ pyhContent = EditedText
    /\ \/ \E t \in BagToSet(timers) : t.kind = "reloadFile" /\ t.after = "success"
       \/ \E o \in BagToSet(ops) : o.cont = "reload" /\ o.after = "success"

\* the selectFile of the reload timer is answered
ReloadAnswered == \E o \in BagToSet(ops) : o.cont = "reload" /\ selectFileOk(o)

\* C28: an edit is not silently lost.  When the human text was edited
\* during the delayed reload that follows a successful apply, the step in
\* which the reload's load is answered leaves pyhContent the edited text
\* and hasUnsavedChanges true.
C28_EditSurvivesReload ==
    [][(EditedDuringReload /\ ReloadAnswered) =>
           (pyhContent' = EditedText /\ hasUnsavedChanges')]_vars

(***************************************************************************)
(* Claims about termination of an apply (SpecLive).                        *)
(***************************************************************************)
\* C19: every apply that is started settles, and settling clears the
\* in-flight flag.  Every step that settles an apply, with any outcome,
\* leaves the in-flight flag cleared, and whenever the flag is set it is
\* eventually cleared, so the control is never left in the applying state.
C19_ApplyTerminates ==
    /\ [][(ApplySettle \/ SendSettle) => ~isSubmitting']_vars
    /\ isSubmitting ~> ~isSubmitting

\* an apply has failed, the flag is cleared and the control accepts a
\* further submit
C19_Witness ==
    /\ submitStatus = "error"
    /\ ~isSubmitting
    /\ ~SubmitDisabled
    /\ ops = EmptyBag

StoreOpFailed ==
    \/ SelectFileFail
    \/ SelectFileNotOk
    \/ ApplySettled("notok")
    \/ ApplySettled("rejected")
    \/ SaveUserPhyFail
    \/ CrawlRepositoryFail
    \/ CloneGitHubRepoFail
    \/ LoadFilesFail

EditorData == <<selectedFile, pyContent, pyhContent, editor_lineMappings, pyhData, diffs>>

\* C15: a failing store operation changes only the error message and the
\* loading flag.  Every step in which a store operation (file load, apply,
\* save, crawl, clone) ends with its request rejected or answered non-ok
\* leaves the selected file, the source text, the human text, the line
\* mappings, the tree data and the diffs as they were.
C15_FailureFrame == [][StoreOpFailed => UNCHANGED EditorData]_vars

\* C26: the loading flag covers every operation in flight.  In every state
\* in which at least one store operation has begun and not yet settled,
\* isLoading is true, for any interleaving of overlapping operations.
C26_LoadingWhileInFlight == ops # EmptyBag => isLoading

\* C29: a save clears the unsaved-changes indicator only when it succeeded.
\* Every step in which a save request fails leaves the component's
\* indicator showing unsaved changes (so the SAVE control stays enabled),
\* in agreement with the store's hasUnsavedChanges flag.
C29_FailedSaveKeepsIndicator ==
    [][SaveUserPhyFail => (unsavedIndicator' /\ unsavedIndicator' = hasUnsavedChanges')]_vars

\* an operation begins in this step: set({isLoading: true, error: null})
OpBegins == \E o \in BagToSet(ops') : CopiesIn(o, ops') > CopiesIn(o, ops)

\* the user calls an operation of the store
UserCall == SelectFile \/ Submit \/ SaveUserPhy \/ CloneGitHubRepo \/ CrawlRepository

\* an operation ends in its catch block
OpCaught ==
    \/ SelectFileFail
    \/ ApplySettled("notok")
    \/ ApplySettled("rejected")
    \/ SaveUserPhyFail
    \/ CrawlRepositoryFail
    \/ CloneGitHubRepoFail
    \/ LoadFilesFail

Quiescent == ops = EmptyBag /\ timers = EmptyBag

\* C30 (SpecStoreLive): every store operation terminates, chained ones
\* included.  Whenever no operation is in flight isLoading is false; error
\* is non-null after a step only if an operation failed in that step, or it
\* was already so and no operation began in that step (so a non-null error
\* comes from a failure after the last operation began); and if from some
\* point on the user calls no further operation, every operation in flight
\* and every chained or timed one ends, leaving isLoading false.
C30_OperationsTerminate ==
    /\ [](ops = EmptyBag => ~isLoading)
    /\ [][error' # "" => (OpCaught \/ (error' = error /\ ~OpBegins))]_vars
    /\ (<>[][~UserCall]_vars) => <>[](Quiescent /\ ~isLoading)

\* the chain clone, crawl, load has run to its end, the last operation
\* failing: nothing is in flight, the flag is cleared and the error is set
C30_Witness ==
    /\ Quiescent
    /\ ~isLoading
    /\ error = "Failed to load files"

(***************************************************************************)
(* Claims about switching files (SpecSession).                             *)
(***************************************************************************)
\* the load of a file other than the selected one completes
OtherFileLoaded == SelectFileOk /\ selectedFile # "" /\ selectedFile' # selectedFile

\* C16: sessions do not share diff state.  Every step in which the load of
\* a file other than the previously selected one completes leaves no
\* pending diff and no dirty indication, so the diffs recorded for the
\* previous file cannot be submitted against the new one.
C16_DiffsDroppedOnSwitch ==
    [][OtherFileLoaded => (diffs' = <<>> /\ ~hasUnsavedChanges')]_vars

\* the load of b.py has begun (in SpecSwitch: while that of a.py was in flight)
SecondLoadBegun == LoadsOf("b.py") # {} \/ selectedFile = "b.py"

\* C27 (SpecSwitch): the last selection wins.  With a.py selected and then
\* b.py selected before the load of a.py has answered, the step in which
\* the last of the two loads answers, in either order of arrival, leaves
\* b.py as the selected file (the texts, tree and mappings are written by
\* the same set as selectedFile).
C27_LastSelectionWins ==
    [][(SecondLoadBegun /\ SelectFileOk /\ ops' = EmptyBag) => selectedFile' = "b.py"]_vars

(***************************************************************************)
(* Claims about the raw-text fallback (SpecRaw).                           *)
(***************************************************************************)
\* the index in use
Index == [pyhToPyRanges |-> pyhToPyRanges, pyToPyhLines |-> pyToPyhLines]

\* the display lines come from the tree render (else from the raw text)
LinesFromRender == Len(lines) > 0

\* C17: the index is tied to one render pass.  In every state the index is
\* built from the mappings of the render when the display lines are the
\* rendered lines, and from the mappings sent with the raw text when the
\* display lines are those of the raw text.
C17_OneRenderPass ==
    IF LinesFromRender THEN Index = BuildIndex(lineMappings)
    ELSE Index = BuildIndex(editor_lineMappings)

\* C18: the raw text is an unmapped blob.  In every state where a file is
\* loaded and the renderer produced no line, no fault was raised, the
\* index is empty, and no source line and no human line is highlighted,
\* wherever the pointer is.
C18_UnmappedBlob ==
    (selectedFile # "" /\ ~isLoading /\ ~LinesFromRender) =>
        /\ ~renderFault
        /\ Index = EmptyIndex
        /\ HighlightedPy = {}
        /\ HighlightedPyh = {}

\* no line is highlighted in TwoPanelEditor nor decorated in EditorPanel
NoHighlight ==
    /\ HighlightedPy = {}
    /\ HighlightedPyh = {}
    /\ monaco.hoveredLine = 0
    /\ monaco.pyDecorations = {}
    /\ monaco.pyhDecorations = {}

\* C20: leaving clears the highlight.  Every step in which the pointer
\* leaves a line of either panel (the mouseleave handler runs) ends in a
\* state where no human line and no source line is highlighted.
C20_LeaveClears == [][(MouseLeave \/ MonacoMouseLeave) => NoHighlight']_vars

(***************************************************************************)
(* Claims about concrete renders (SpecScenario).                           *)
(***************************************************************************)
\* the store's tree is one node with a signature, a description and the
\* source range [1,3]
OneNodeScenario ==
    /\ Indexed
    /\ Len(pyhData) = 1
    /\ Truthy(pyhData[1].signature) /\ Truthy(pyhData[1].description)
    /\ pyhData[1].line_range = <<1, 3>>

TwoMappingsOfOneToThree ==
    /\ lines = <<[text |-> <<"sig", 1>>, pad |-> 0], [text |-> <<"desc", 1>>, pad |-> 1]>>
    /\ lineMappings = <<[pyhLine |-> 1, pyLineRange |-> <<1, 3>>, nodeId |-> 1],
                        [pyhLine |-> 2, pyLineRange |-> <<1, 3>>, nodeId |-> 1]>>

\* C13 as stated: for the one-node tree with signature, description and
\* range [1,3], the render yields two lines with mappings 1 -> [1,3] and
\* 2 -> [1,3], sourceRangeFor(1) = [1,3] and humanLineFor(2) = 1.
C13_ScenarioAsStated ==
    OneNodeScenario =>
        /\ TwoMappingsOfOneToThree
        /\ sourceRangeFor(1) = <<1, 3>>
        /\ humanLineFor(2) = 1

\* C13 as amended: for the one-node tree with signature, description and
\* range [1,3], the render yields two lines with mappings 1 -> [1,3] and
\* 2 -> [1,3], sourceRangeFor(1) = sourceRangeFor(2) = [1,3], and
\* humanLineFor(s) = 2, the description line recorded last, for every
\* source line s of 1..3.
C13_ScenarioLastLine ==
    OneNodeScenario =>
        /\ TwoMappingsOfOneToThree
        /\ sourceRangeFor(1) = <<1, 3>>
        /\ sourceRangeFor(2) = <<1, 3>>
        /\ \A s \in 1..3 : humanLineFor(s) = 2

\* the scenario tree has been rendered and source line 2 resolves to the
\* description line
C13_Witness ==
    /\ OneNodeScenario
    /\ Len(lines) = 2 /\ Len(lineMappings) = 2
    /\ humanLineFor(2) = 2

(***************************************************************************)
(* Claims about damaged trees (SpecMalformed).                             *)
(***************************************************************************)
\* the tree the renderer is given: the store's, else the one in the text
TreeInUse == IF Truthy(pyhData) THEN pyhData ELSE pyhContent.json

Malformed(t) ==
    \E i \in DOMAIN t :
        \/ t[i].children = NotIterable
        \/ \E k \in 1..Len(t[i].children) : t[i].children[k] = NullChild

\* C11: a malformed tree degrades to empty output.  Whenever the tree
\* given to the renderer has a null child or a children value that is not
\* a sequence, the render raises no fault and returns no line and no
\* mapping (never a partial rendering).
C11_MalformedEmpty ==
    Malformed(TreeInUse) =>
        /\ ~renderFault
        /\ lines = <<>>
        /\ lineMappings = <<>>

====
